---------------------------- MODULE Spec2Model ----------------------------
(***************************************************************************)
(* A model of the SUTD FAQ scraping pipeline: the fetcher (fetch_html.py), *)
(* the FAQ extractor and corpus combiner (extract_faq.py), the link        *)
(* segregator (extract_links.py) and the whitespace normalisation of the   *)
(* page-content extractor (extract_page_content.py).                       *)
(*                                                                         *)
(* Text is a sequence of one-character strings.  Each script is modelled   *)
(* by its own group of variables and its own specification; a              *)
(* specification leaves the other groups at their initial value.           *)
(***************************************************************************)
EXTENDS Integers, Sequences, FiniteSets, TLC

VARIABLES
    \* ---- whitespace normalisation (the two clean functions)
    text,        \* the argument of clean
    faq_once,    \* extract_faq.clean(text)
    faq_twice,   \* extract_faq.clean(extract_faq.clean(text))
    page_once,   \* extract_page_content.clean(text)
    page_twice,  \* extract_page_content.clean(extract_page_content.clean(text))
    cdone,       \* which of the four applications have been made
    \* ---- fetch_html (fetch_html.py)
    retries,     \* the retries argument (--retries, any int)
    backoff_sec, \* the backoff_sec argument, in tenths of a second
    attempt,     \* the loop variable of  for attempt in range(retries + 1)
    status,      \* the local status; Unbound until an attempt assigns it
    last_err,    \* the local last_err
    responses,   \* the outcomes of the requests.get calls of this call, in order
    sleeps,      \* the durations of the time.sleep calls of this call, in order
    fpc,         \* where the call is: idle, loop, backoff, returned, raised
    ret,         \* the returned tuple (html, status, error)
    \* ---- main of fetch_html.py
    urls,        \* read_seed_urls(args.seed)
    meta_prior,  \* the rows the metadata CSV held before the run
    idx,         \* the loop variable i of  enumerate(urls, start=1)
    results,     \* the list results
    raw_files,   \* the raw HTML files written under args.out
    delays,      \* the number of time.sleep(args.delay) calls
    metadata,    \* the rows of the metadata CSV
    mpc,         \* where main is: idle, start, loop, fetching, done, aborted
    \* ---- extract_faq_from_html (extract_faq.py)
    html,        \* the parsed document given to extract_faq_from_html
    qa_pairs,    \* the list it returns
    epc,         \* idle, called, returned
    \* ---- extract_links_from_raw (extract_links.py)
    raw_dir,         \* the *.html files of raw_dir: file name -> document
    lnext,           \* how many files of sorted(raw_dir.glob("*.html")) are done
    faq_with_links,  \* the list faq_with_links
    faq_no_links,    \* the list faq_no_links
    link_records,    \* the list link_records
    lpc,             \* idle, loop, returned
    \* ---- main of extract_faq.py, combine_faq_txt, archive_per_page_files
    raw_pages,    \* the *.html files of --raw: stem -> document
    runs,         \* the --combine flag of every run of main so far, in order
    out_dir,      \* the files of --out: name -> text
    archive_dir,  \* the files of data/archive: name -> text
    pnext,        \* how many files of sorted(raw_dir.glob("*.html")) are done
    total_qas,    \* the local total_qas
    num_questions,\* the local num_questions (-1 before it is assigned)
    xpc           \* idle, extract, combine, count, archive, done, raised

cleanVars == <<text, faq_once, faq_twice, page_once, page_twice, cdone>>

fetchVars == <<retries, backoff_sec, attempt, status, last_err, responses,
               sleeps, fpc, ret>>

mainVars == <<urls, meta_prior, idx, results, raw_files, delays, metadata, mpc>>

faqVars == <<html, qa_pairs, epc>>

linkVars == <<raw_dir, lnext, faq_with_links, faq_no_links, link_records, lpc>>

corpusVars == <<raw_pages, runs, out_dir, archive_dir, pnext, total_qas,
                num_questions, xpc>>

vars == <<cleanVars, fetchVars, mainVars, faqVars, linkVars, corpusVars>>

-----------------------------------------------------------------------------
(* Bounds *)

\* longest argument of clean that is enumerated
MaxLen == 5

\* --retries ranges over -MaxNegRetries .. MaxRetries
MaxRetries == 3
MaxNegRetries == 2

\* longest seed list
MaxSeeds == 2

\* most elements (headings, rich-text blocks, others) of a document given to
\* extract_faq_from_html
MaxNodes == 4

\* most elements of all the documents of a raw directory given to
\* extract_links_from_raw
MaxLinkNodes == 4

\* most question/answer blocks of all the pages of a raw directory given to
\* main of extract_faq.py
MaxCorpusPairs == 2

\* most runs of main of extract_faq.py in one behaviour
MaxRuns == 2

-----------------------------------------------------------------------------
(* Characters and strings *)

NL == "\n"
SP == " "
TAB == "\t"
CR == "\r"

\* the characters texts are built from: space, tab, newline, another
\* whitespace character (carriage return) and a non-whitespace character
Alphabet == {SP, TAB, NL, CR, "x"}

\* str.isspace(), which is also the regular expression class \s
Whitespace == {SP, TAB, NL, CR}

\* the regular expression class [ \t]
Horizontal == {SP, TAB}

StringsUpTo(n) == UNION {[1..k -> Alphabet] : k \in 0..n}

\* str.strip(): leading and trailing whitespace removed
Strip(s) ==
    LET keep == {i \in 1..Len(s) : s[i] \notin Whitespace}
    IN  IF keep = {} THEN <<>>
        ELSE LET lo == CHOOSE i \in keep : \A j \in keep : i <= j
                 hi == CHOOSE i \in keep : \A j \in keep : j <= i
             IN  SubSeq(s, lo, hi)

\* str.rstrip(): trailing whitespace removed
RStrip(s) ==
    LET keep == {i \in 1..Len(s) : s[i] \notin Whitespace}
    IN  IF keep = {} THEN <<>>
        ELSE LET hi == CHOOSE i \in keep : \A j \in keep : j <= i
             IN  SubSeq(s, 1, hi)

\* a slip: cls\n in place of cls+\n, one character before the newline
TrailingMatchEndOneChar(cls, s, i) ==
    IF i + 1 <= Len(s) /\ s[i] \in cls /\ s[i + 1] = NL THEN i + 1 ELSE 0

\* the end of the match of  cls+\n  that starts at position i, or 0 when there
\* is none at i; cls+ is greedy and backtracks, so the match ends at the last
\* newline that a run of cls characters starting at i reaches
TrailingMatchEnd(cls, s, i) ==
    LET ends == {j \in (i + 1)..Len(s) :
                    /\ s[j] = NL
                    /\ \A k \in i..(j - 1) : s[k] \in cls}
    IN  IF ends = {} THEN 0
        ELSE CHOOSE j \in ends : \A k \in ends : k <= j

RECURSIVE SubTrailingFrom(_, _, _)
\* re.sub(cls+\n, "\n", s) from position i on: leftmost matches, not overlapping
SubTrailingFrom(cls, s, i) ==
    IF i > Len(s) THEN <<>>
    ELSE LET j == TrailingMatchEnd(cls, s, i)
         IN  IF j # 0 THEN <<NL>> \o SubTrailingFrom(cls, s, j + 1)
             ELSE <<s[i]>> \o SubTrailingFrom(cls, s, i + 1)

\* the end of the run of newlines that starts at position i (i - 1 when s[i]
\* is no newline)
NewlineRunEnd(s, i) ==
    LET stops == {j \in i..(Len(s) + 1) : j = Len(s) + 1 \/ s[j] # NL}
    IN  (CHOOSE j \in stops : \A k \in stops : j <= k) - 1

RECURSIVE SubNewlinesFrom(_, _)
\* re.sub(\n{3,}, "\n\n", s) from position i on
SubNewlinesFrom(s, i) ==
    IF i > Len(s) THEN <<>>
    ELSE LET e == NewlineRunEnd(s, i)
         IN  IF e - i + 1 >= 3 THEN <<NL, NL>> \o SubNewlinesFrom(s, e + 1)
             ELSE <<s[i]>> \o SubNewlinesFrom(s, i + 1)

\* extract_faq.clean
clean_faq(s) ==
    Strip(SubNewlinesFrom(SubTrailingFrom(Whitespace, s, 1), 1))

\* extract_page_content.clean
clean_page(s) ==
    Strip(SubNewlinesFrom(SubTrailingFrom(Horizontal, s, 1), 1))


-----------------------------------------------------------------------------
(* fetch_html.py: fetch_html *)

None == "None"
Unbound == "Unbound"

\* the default of the backoff_sec parameter, 1.5 s, in tenths of a second
DefaultBackoff == 15

\* the values of backoff_sec a direct caller passes, in tenths of a second
BackoffChoices == {5, DefaultBackoff, 20}

\* what one requests.get call does: a response with a status code, or an
\* exception (a timeout, a connection error)
Outcomes == {"200", "404", "500", "EXCEPTION"}

\* the texts a 200 response carries (resp.text); the empty text is one
Bodies == {"", "<p>", "<html>"}

\* slip: the multiplier is the 0-based loop variable
BackoffDelayZeroBased(b, a) == b * a

\* backoff_sec * (attempt + 1)
BackoffDelay(b, a) == b * (a + 1)

\* the state at entry of fetch_html(url, headers, timeout, r, b)
FetchCalled(r, b) ==
    /\ retries = r
    /\ backoff_sec = b
    /\ attempt = 0
    /\ status = Unbound
    /\ last_err = None
    /\ responses = <<>>
    /\ sleeps = <<>>
    /\ fpc = "loop"
    /\ ret = <<>>

FetchIdle ==
    /\ retries = 0
    /\ backoff_sec = 0
    /\ attempt = 0
    /\ status = Unbound
    /\ last_err = None
    /\ responses = <<>>
    /\ sleeps = <<>>
    /\ fpc = "idle"
    /\ ret = <<>>

\* one pass through the try block: requests.get answers o (with body b when
\* o is 200)
Request(o, b) ==
    /\ fpc = "loop"
    /\ attempt < retries + 1
    /\ responses' = Append(responses, o)
    /\ IF o = "EXCEPTION"
       THEN /\ last_err' = "repr(e)"
            /\ status' = "EXCEPTION"
            /\ fpc' = "backoff"
            /\ ret' = ret
       ELSE IF o # "200"
       THEN /\ status' = o
            /\ last_err' = "HTTP_" \o o
            /\ fpc' = "backoff"
            /\ ret' = ret
       ELSE /\ status' = o
            /\ last_err' = last_err
            /\ fpc' = "returned"
            /\ ret' = <<b, o, None>>
    /\ UNCHANGED <<retries, backoff_sec, attempt, sleeps>>

\* the end of a failed pass: sleep unless this was the last attempt, then
\* the next value of the loop variable
Backoff ==
    /\ fpc = "backoff"
    /\ sleeps' = IF attempt < retries
                 THEN Append(sleeps, BackoffDelay(backoff_sec, attempt))
                 ELSE sleeps
    /\ attempt' = attempt + 1
    /\ fpc' = "loop"
    /\ UNCHANGED <<retries, backoff_sec, status, last_err, responses, ret>>

\* the loop is exhausted:  return None, status, last_err.  status is bound
\* only by a pass through the loop body; reading it unbound raises
\* UnboundLocalError
ReturnFailure ==
    /\ fpc = "loop"
    /\ ~(attempt < retries + 1)
    /\ IF status = Unbound
       THEN /\ fpc' = "raised"
            /\ ret' = ret
       ELSE /\ fpc' = "returned"
            /\ ret' = <<None, status, last_err>>
    /\ UNCHANGED <<retries, backoff_sec, attempt, status, last_err, responses,
                   sleeps>>

\* fetch_html called directly, with any retries and backoff_sec
FetchInit ==
    \E r \in (0 - MaxNegRetries)..MaxRetries : \E b \in BackoffChoices :
        FetchCalled(r, b)

-----------------------------------------------------------------------------
(* fetch_html.py: main *)

\* the seed URLs of the model
SeedUrls == {"https://www.sutd.edu.sg/faq", "https://www.sutd.edu.sg/faq?paged=2#top"}

\* slugify, on the seed URLs of the model
slugify(u) ==
    IF u = "https://www.sutd.edu.sg/faq" THEN "faq" ELSE "faq_paged_2"

\* os.path.join(args.out, slugify(url) + ".html")
RawPath(u) == "data/raw/" \o slugify(u) \o ".html"

\* a row the metadata CSV holds from an earlier run
OldRow == [url |-> "https://www.sutd.edu.sg/faq", raw_path |-> "data/raw/faq.html",
           status |-> "200", bytes |-> 3, error |-> ""]

\* the FetchResult main builds from what fetch_html returned for url u
\* (retrieved_at, a wall-clock reading, is left out)
FetchResult(u, r) ==
    IF r[1] # None
    THEN [url |-> u, raw_path |-> RawPath(u), status |-> r[2],
          bytes |-> Len(r[1]), error |-> ""]
    ELSE [url |-> u, raw_path |-> "", status |-> r[2], bytes |-> 0,
          error |-> IF r[3] # None THEN r[3] ELSE "UNKNOWN_ERROR"]

SeedLists == UNION {[1..n -> SeedUrls] : n \in 0..MaxSeeds}

MainInit ==
    /\ urls \in SeedLists
    /\ meta_prior \in {<<>>, <<OldRow>>}
    /\ metadata = meta_prior
    /\ idx = 1
    /\ results = <<>>
    /\ raw_files = {}
    /\ delays = 0
    /\ mpc = "start"
    \* args.retries; the call state is set when main calls fetch_html
    /\ retries \in (0 - MaxNegRetries)..MaxRetries
    /\ backoff_sec = DefaultBackoff
    /\ attempt = 0
    /\ status = Unbound
    /\ last_err = None
    /\ responses = <<>>
    /\ sleeps = <<>>
    /\ fpc = "idle"
    /\ ret = <<>>

MainIdle ==
    /\ urls = <<>>
    /\ meta_prior = <<>>
    /\ metadata = <<>>
    /\ idx = 1
    /\ results = <<>>
    /\ raw_files = {}
    /\ delays = 0
    /\ mpc = "idle"

\* urls = read_seed_urls(...); if not urls: raise RuntimeError
MainReadSeeds ==
    /\ mpc = "start"
    /\ mpc' = IF urls = <<>> THEN "aborted" ELSE "loop"
    /\ UNCHANGED <<urls, meta_prior, idx, results, raw_files, delays, metadata>>
    /\ UNCHANGED fetchVars

\* the loop body up to the call  fetch_html(url, headers, timeout, retries)
MainCallFetch ==
    /\ mpc = "loop"
    /\ idx <= Len(urls)
    /\ mpc' = "fetching"
    /\ attempt' = 0
    /\ status' = Unbound
    /\ last_err' = None
    /\ responses' = <<>>
    /\ sleeps' = <<>>
    /\ fpc' = "loop"
    /\ ret' = <<>>
    /\ UNCHANGED <<retries, backoff_sec>>
    /\ UNCHANGED <<urls, meta_prior, idx, results, raw_files, delays, metadata>>

\* fetch_html running inside main
MainRequest(o, b) == mpc = "fetching" /\ Request(o, b) /\ UNCHANGED mainVars

MainBackoff == mpc = "fetching" /\ Backoff /\ UNCHANGED mainVars

MainReturnFailure == mpc = "fetching" /\ ReturnFailure /\ UNCHANGED mainVars

\* fetch_html returned: write the raw file on success, append the
\* FetchResult, sleep args.delay unless this was the last URL
MainRecord ==
    /\ mpc = "fetching"
    /\ fpc = "returned"
    /\ raw_files' = IF ret[1] # None THEN raw_files \cup {RawPath(urls[idx])}
                    ELSE raw_files
    /\ results' = Append(results, FetchResult(urls[idx], ret))
    /\ delays' = IF idx < Len(urls) THEN delays + 1 ELSE delays
    /\ idx' = idx + 1
    /\ mpc' = "loop"
    /\ fpc' = "idle"
    /\ UNCHANGED <<urls, meta_prior, metadata>>
    /\ UNCHANGED <<retries, backoff_sec, attempt, status, last_err, responses,
                   sleeps, ret>>

\* fetch_html raised: nothing in main catches it, the run ends
MainRaised ==
    /\ mpc = "fetching"
    /\ fpc = "raised"
    /\ mpc' = "aborted"
    /\ UNCHANGED <<urls, meta_prior, idx, results, raw_files, delays, metadata>>
    /\ UNCHANGED fetchVars

\* after the loop: append_metadata_csv(args.meta, results)
MainAppendMetadata ==
    /\ mpc = "loop"
    /\ idx > Len(urls)
    /\ metadata' = metadata \o results
    /\ mpc' = "done"
    /\ UNCHANGED <<urls, meta_prior, idx, results, raw_files, delays>>
    /\ UNCHANGED fetchVars

-----------------------------------------------------------------------------
(* Parsed documents.  A document is the list of its elements of interest in *)
(* document order: level-6 headings, div elements of class richText, and    *)
(* other elements.  The subtree of the first section#accordion element is a *)
(* range lo..hi of that list (acc = <<lo, hi>>; lo = hi + 1 when it holds   *)
(* none of them), and acc = <<>> when the document has no such element.     *)
(* An element carries its text fragments (its strings, in order) and the    *)
(* href values of the anchors inside it (NoHref for an anchor without href).*)

NoHref == <<"no href">>

Node(t, f, a) == [tag |-> t, frags |-> f, anchors |-> a]

RECURSIVE Join(_, _)
\* sep.join(parts)
Join(parts, sep) ==
    IF parts = <<>> THEN <<>>
    ELSE IF Len(parts) = 1 THEN parts[1]
    ELSE parts[1] \o sep \o Join(Tail(parts), sep)

\* Tag.get_text(sep, strip=True): every string stripped, the empty ones
\* skipped, the rest joined by sep
GetText(n, sep) ==
    LET stripped == [i \in 1..Len(n.frags) |-> Strip(n.frags[i])]
        NonEmpty(f) == f # <<>>
    IN  Join(SelectSeq(stripped, NonEmpty), sep)

\* slip: the search for the answer stays inside the accordion container
FindNextRichTextInside(d, i) ==
    LET found == {j \in (i + 1)..d.acc[2] : d.nodes[j].tag = "richText"}
    IN  IF found = {} THEN 0
        ELSE CHOOSE j \in found : \A k \in found : j <= k

\* h6.find_next("div", class_="richText"): the position of the first richText
\* div after position i in document order, anywhere in the document; 0 when
\* there is none
FindNextRichText(d, i) ==
    LET found == {j \in (i + 1)..Len(d.nodes) : d.nodes[j].tag = "richText"}
    IN  IF found = {} THEN 0
        ELSE CHOOSE j \in found : \A k \in found : j <= k

\* slip: a pair is kept when its answer is empty
KeepPairQuestionOnly(q, a) == q # <<>>

\* the two  if not ...: continue  tests on a heading's question and answer
KeepPair(q, a) == q # <<>> /\ a # <<>>

RECURSIVE FaqLoop(_, _, _)
\* for h6 in accordion.select("h6"), from position i on, pairs being qa_pairs
\* so far
FaqLoop(d, i, pairs) ==
    IF i > d.acc[2] THEN pairs
    ELSE IF d.nodes[i].tag # "h6" THEN FaqLoop(d, i + 1, pairs)
    ELSE LET q == clean_faq(GetText(d.nodes[i], <<SP>>))
             j == FindNextRichText(d, i)
             a == IF j = 0 THEN <<>> ELSE clean_faq(GetText(d.nodes[j], <<NL>>))
         IN  IF j # 0 /\ KeepPair(q, a)
             THEN FaqLoop(d, i + 1, Append(pairs, <<q, a>>))
             ELSE FaqLoop(d, i + 1, pairs)

\* extract_faq_from_html, on the parsed document
extract_faq_from_html(d) ==
    IF d.acc = <<>> THEN <<>> ELSE FaqLoop(d, d.acc[1], <<>>)

\* the texts of the elements of the documents enumerated: a
\* whitespace-only string, one word, and two strings of which one holds
\* trailing blanks and a blank line
TextChoices ==
    { << <<NL, SP>> >>,
      << <<"x">> >>,
      << <<"y", SP, NL, NL, "x">>, <<SP, "x">> >> }

FaqNodes ==
    {Node(t, f, <<>>) : t \in {"h6", "richText"}, f \in TextChoices}
        \cup {Node("p", <<>>, <<>>)}

\* where the accordion container can lie in a document of n elements
AccChoices(n) ==
    {<<>>, <<1, 0>>} \cup {a \in (1..n) \X (1..n) : a[1] <= a[2]}

NoDoc == [nodes |-> <<>>, acc |-> <<>>]

\* every document of MaxNodes elements at most
FaqInit ==
    /\ \E n \in 0..MaxNodes : \E ns \in [1..n -> FaqNodes] : \E a \in AccChoices(n) :
           html = [nodes |-> ns, acc |-> a]
    /\ qa_pairs = <<>>
    /\ epc = "called"

FaqIdle ==
    /\ html = NoDoc
    /\ qa_pairs = <<>>
    /\ epc = "idle"

\* the call extract_faq_from_html(html)
ExtractFaq ==
    /\ epc = "called"
    /\ qa_pairs' = extract_faq_from_html(html)
    /\ epc' = "returned"
    /\ UNCHANGED html

-----------------------------------------------------------------------------
(* extract_links.py: extract_links_from_raw *)

\* SEPARATOR of extract_links.py, 14 dashes
LINK_SEPARATOR == [i \in 1..14 |-> "-"]

BASE == "https://www.sutd.edu.sg"

\* slip: every anchor counts, with or without an href attribute
HrefAnchorsAll(n) == n.anchors

\* ans_div.find_all("a", href=True): the href values of the anchors that have
\* an href attribute, in document order
HrefAnchors(n) ==
    LET HasHref(h) == h # NoHref
    IN  SelectSeq(n.anchors, HasHref)

\* if href.startswith("/"): href = BASE + href.  An href is a list of pieces,
\* the first one "/" when it is relative
Absolute(h) == IF h # <<>> /\ h[1] = "/" THEN <<BASE>> \o h ELSE h

\* f"{SEPARATOR}\n{question}\n\n{answer_text}\n"
Entry(question, answer_text) ==
    LINK_SEPARATOR \o <<NL>> \o question \o <<NL, NL>> \o answer_text \o <<NL>>

RECURSIVE LinksLoop(_, _, _, _)
\* for h6 in accordion.select("h6"), from position i on, in file name; acc is
\* the three lists so far
LinksLoop(d, name, i, acc) ==
    IF i > d.acc[2] THEN acc
    ELSE IF d.nodes[i].tag # "h6" THEN LinksLoop(d, name, i + 1, acc)
    ELSE LET question == GetText(d.nodes[i], <<SP>>)
             j == FindNextRichText(d, i)
         IN  IF j = 0 THEN LinksLoop(d, name, i + 1, acc)
             ELSE LET answer_text == GetText(d.nodes[j], <<NL>>)
                      hrefs == HrefAnchors(d.nodes[j])
                      links == [k \in 1..Len(hrefs) |-> Absolute(hrefs[k])]
                      entry == Entry(question, answer_text)
                  IN  IF links # <<>>
                      THEN LinksLoop(d, name, i + 1,
                               [acc EXCEPT
                                   !.with = Append(@, entry),
                                   !.records = @ \o
                                       [k \in 1..Len(links) |->
                                           [question |-> question,
                                            link |-> links[k],
                                            source_file |-> name]]])
                      ELSE LinksLoop(d, name, i + 1,
                               [acc EXCEPT !.no = Append(@, entry)])

\* the body of  for html_file in sorted(raw_dir.glob("*.html"))  for one file
LinksOfFile(d, name, acc) ==
    IF d.acc = <<>> THEN acc ELSE LinksLoop(d, name, d.acc[1], acc)

\* the file names of the raw directory, sorted
LinkFiles == <<"a.html", "b.html">>

\* the anchors of the rich-text blocks enumerated: one anchor without href;
\* and a relative href, an anchor without href and an empty href
AnchorChoices ==
    { <<NoHref>>,
      << <<"/", "admissions">>, NoHref, <<>> >> }

\* the headings enumerated have one word or only whitespace
LinkNodes ==
    {Node("h6", f, <<>>) : f \in {<< <<"x">> >>, << <<NL, SP>> >>}}
        \cup {Node("richText", << <<"x">> >>, a) : a \in AnchorChoices}

\* every raw directory of two files with MaxLinkNodes elements at most in all
LinkInit ==
    /\ \E n \in 0..MaxLinkNodes : \E m \in 0..(MaxLinkNodes - n) :
       \E na \in [1..n -> LinkNodes] : \E nb \in [1..m -> LinkNodes] :
       \E aa \in AccChoices(n) : \E ab \in AccChoices(m) :
           raw_dir = [f \in {"a.html", "b.html"} |->
                         IF f = "a.html" THEN [nodes |-> na, acc |-> aa]
                         ELSE [nodes |-> nb, acc |-> ab]]
    /\ lnext = 0
    /\ faq_with_links = <<>>
    /\ faq_no_links = <<>>
    /\ link_records = <<>>
    /\ lpc = "loop"

LinkIdle ==
    /\ raw_dir = <<>>
    /\ lnext = 0
    /\ faq_with_links = <<>>
    /\ faq_no_links = <<>>
    /\ link_records = <<>>
    /\ lpc = "idle"

\* one pass of  for html_file in sorted(raw_dir.glob("*.html"))
LinkProcessFile ==
    /\ lpc = "loop"
    /\ lnext < Len(LinkFiles)
    /\ LET name == LinkFiles[lnext + 1]
           out == LinksOfFile(raw_dir[name], name,
                      [with |-> faq_with_links, no |-> faq_no_links,
                       records |-> link_records])
       IN  /\ faq_with_links' = out.with
           /\ faq_no_links' = out.no
           /\ link_records' = out.records
    /\ lnext' = lnext + 1
    /\ UNCHANGED <<raw_dir, lpc>>

\* return faq_no_links, faq_with_links, link_records
LinkReturn ==
    /\ lpc = "loop"
    /\ lnext = Len(LinkFiles)
    /\ lpc' = "returned"
    /\ UNCHANGED <<raw_dir, lnext, faq_with_links, faq_no_links, link_records>>

-----------------------------------------------------------------------------
(* The two clean functions, applied once and twice to every short string *)

CleanInit ==
    /\ text \in StringsUpTo(MaxLen)
    /\ faq_once = <<>>
    /\ faq_twice = <<>>
    /\ page_once = <<>>
    /\ page_twice = <<>>
    /\ cdone = {}

CleanIdle ==
    /\ text = <<>>
    /\ faq_once = <<>>
    /\ faq_twice = <<>>
    /\ page_once = <<>>
    /\ page_twice = <<>>
    /\ cdone = {}

CleanFaq ==
    /\ "faq" \notin cdone
    /\ faq_once' = clean_faq(text)
    /\ cdone' = cdone \cup {"faq"}
    /\ UNCHANGED <<text, faq_twice, page_once, page_twice>>

CleanFaqAgain ==
    /\ "faq" \in cdone
    /\ "faq2" \notin cdone
    /\ faq_twice' = clean_faq(faq_once)
    /\ cdone' = cdone \cup {"faq2"}
    /\ UNCHANGED <<text, faq_once, page_once, page_twice>>

CleanPage ==
    /\ "page" \notin cdone
    /\ page_once' = clean_page(text)
    /\ cdone' = cdone \cup {"page"}
    /\ UNCHANGED <<text, faq_once, faq_twice, page_twice>>

CleanPageAgain ==
    /\ "page" \in cdone
    /\ "page2" \notin cdone
    /\ page_twice' = clean_page(page_once)
    /\ cdone' = cdone \cup {"page2"}
    /\ UNCHANGED <<text, faq_once, faq_twice, page_once>>

-----------------------------------------------------------------------------
(* extract_faq.py: write_qa_txt, combine_faq_txt, count_questions_in_combined,*)
(* archive_per_page_files and main.  A directory is a function from the     *)
(* names of its files to their texts; a file name is <<stem, rest>>.        *)

\* SEPARATOR of extract_faq.py, 27 dashes
SEPARATOR == [i \in 1..27 |-> "-"]

RECURSIVE Parts(_)
\* the list parts of write_qa_txt
Parts(qa) ==
    IF qa = <<>> THEN <<>>
    ELSE <<SEPARATOR, qa[1][1], <<>>, qa[1][2], <<>>>> \o Parts(Tail(qa))

\* the text write_qa_txt writes:  "\n".join(parts).rstrip()
QaText(qa) == RStrip(Join(Parts(qa), <<NL>>))

WriteFile(dir, name, t) ==
    [n \in (DOMAIN dir) \cup {name} |-> IF n = name THEN t ELSE dir[n]]

FaqTxt(stem) == <<stem, "_faq.txt">>

\* --combined_name, at its default; it does not match *_faq.txt
CombinedName == <<"sutd_undergrad_faq_all", ".txt">>

\* the names matching *_faq.txt that occur in the model, sorted
AllFaqNames == <<FaqTxt("a"), FaqTxt("b"), FaqTxt("old")>>

\* sorted(processed_dir.glob("*_faq.txt"))
SortedFaqFiles(dir) ==
    LET Present(n) == n \in DOMAIN dir
    IN  SelectSeq(AllFaqNames, Present)

\* slip: the check  if not faq_files: raise  is missing
CombineRaisesNever(faq_files) == FALSE

\* if not faq_files: raise RuntimeError
CombineRaises(faq_files) == faq_files = <<>>

\* combined_text of combine_faq_txt
CombinedText(dir) ==
    LET faq_files == SortedFaqFiles(dir)
    IN  Join([i \in 1..Len(faq_files) |-> dir[faq_files[i]]], <<NL, NL>>)

RECURSIVE CountFrom(_, _, _)
\* str.count(sub) from position i on: occurrences that do not overlap
CountFrom(t, sub, i) ==
    IF i + Len(sub) - 1 > Len(t) THEN 0
    ELSE IF SubSeq(t, i, i + Len(sub) - 1) = sub
         THEN 1 + CountFrom(t, sub, i + Len(sub))
         ELSE CountFrom(t, sub, i + 1)

\* count_questions_in_combined
count_questions_in_combined(t) == CountFrom(t, SEPARATOR, 1)

\* archive_per_page_files: what the two directories hold afterwards
ArchivedOut(dir) ==
    [n \in {m \in DOMAIN dir : m[2] # "_faq.txt"} |-> dir[n]]

ArchivedArchive(dir, arch) ==
    [n \in (DOMAIN arch) \cup {m \in DOMAIN dir : m[2] = "_faq.txt"} |->
        IF n \in DOMAIN dir /\ n[2] = "_faq.txt" THEN dir[n] ELSE arch[n]]

\* the stems of sorted(raw_dir.glob("*.html")) that occur in the model
AllStems == <<"a", "b">>

HtmlFiles(raw) ==
    LET Present(st) == st \in DOMAIN raw
    IN  SelectSeq(AllStems, Present)

\* a line of 27 dashes, as a page may hold one as a rule between paragraphs
DashLine == << SEPARATOR >>

RECURSIVE PairNodes(_)
PairNodes(ps) ==
    IF ps = <<>> THEN <<>>
    ELSE <<Node("h6", ps[1][1], <<>>), Node("richText", ps[1][2], <<>>)>>
             \o PairNodes(Tail(ps))

\* the question/answer blocks of the pages enumerated: the question one word
\* or blank, the answer one word or a line of dashes
CorpusBlocks == {<< <<"x">> >>, << <<NL, SP>> >>} \X {<< <<"x">> >>, DashLine}

\* a page of these blocks, inside an accordion container or without one
CorpusDoc(ps, inAccordion) ==
    [nodes |-> PairNodes(ps),
     acc |-> IF inAccordion THEN <<1, 2 * Len(ps)>> ELSE <<>>]

\* what --out may hold before the first run: nothing, a per-page file of an
\* earlier run over a page since removed, an earlier corpus, or both
OneOldPair == << << <<"x">>, <<"x">> >> >>

PriorOutDirs ==
    { <<>>,
      [n \in {FaqTxt("old")} |-> QaText(OneOldPair)],
      [n \in {CombinedName} |-> <<"x">>],
      [n \in {FaqTxt("old"), CombinedName} |->
          IF n = CombinedName THEN <<"x">> ELSE QaText(OneOldPair)] }

\* every raw directory of no file, one file or two, with MaxCorpusPairs
\* blocks at most in all
CorpusInit ==
    /\ \E files \in {{}, {"a"}, {"a", "b"}} :
       \E n \in 0..MaxCorpusPairs : \E m \in 0..(MaxCorpusPairs - n) :
       \E pa \in [1..n -> CorpusBlocks] : \E pb \in [1..m -> CorpusBlocks] :
       \E ia \in BOOLEAN : \E ib \in BOOLEAN :
           raw_pages = [st \in files |->
                           IF st = "a" THEN CorpusDoc(pa, ia) ELSE CorpusDoc(pb, ib)]
    /\ out_dir \in PriorOutDirs
    /\ archive_dir = <<>>
    /\ runs = <<>>
    /\ pnext = 0
    /\ total_qas = 0
    /\ num_questions = -1
    /\ xpc = "ready"

CorpusIdle ==
    /\ raw_pages = <<>>
    /\ out_dir = <<>>
    /\ archive_dir = <<>>
    /\ runs = <<>>
    /\ pnext = 0
    /\ total_qas = 0
    /\ num_questions = -1
    /\ xpc = "idle"

\* nothing is running: before the first run, or after a run or a call ended
Quiet == xpc \in {"ready", "done", "raised_no_html", "raised_no_faq", "combined"}

\* main starts, with or without --combine, up to the check for .html files
MainFaqStart(combine) ==
    /\ Quiet
    /\ Len(runs) < MaxRuns
    /\ runs' = Append(runs, combine)
    /\ pnext' = 0
    /\ total_qas' = 0
    /\ num_questions' = -1
    /\ xpc' = IF HtmlFiles(raw_pages) = <<>> THEN "raised_no_html" ELSE "extract"
    /\ UNCHANGED <<raw_pages, out_dir, archive_dir>>

\* one pass of  for html_path in html_files
MainFaqExtractPage ==
    /\ xpc = "extract"
    /\ pnext < Len(HtmlFiles(raw_pages))
    /\ LET stem == HtmlFiles(raw_pages)[pnext + 1]
           qa == extract_faq_from_html(raw_pages[stem])
       IN  /\ out_dir' = WriteFile(out_dir, FaqTxt(stem), QaText(qa))
           /\ total_qas' = total_qas + Len(qa)
    /\ pnext' = pnext + 1
    /\ UNCHANGED <<raw_pages, runs, archive_dir, num_questions, xpc>>

\* the loop is over:  if args.combine
MainFaqExtracted ==
    /\ xpc = "extract"
    /\ pnext = Len(HtmlFiles(raw_pages))
    /\ xpc' = IF runs[Len(runs)] THEN "combine" ELSE "done"
    /\ UNCHANGED <<raw_pages, runs, out_dir, archive_dir, pnext, total_qas,
                   num_questions>>

\* combine_faq_txt called on --out by itself, not from main
CallCombine ==
    /\ Quiet
    /\ xpc' = "combine_direct"
    /\ UNCHANGED <<raw_pages, runs, out_dir, archive_dir, pnext, total_qas,
                   num_questions>>

\* combine_faq_txt(out_dir, combined_name), from main or by itself
Combine ==
    /\ xpc \in {"combine", "combine_direct"}
    /\ IF CombineRaises(SortedFaqFiles(out_dir))
       THEN /\ xpc' = "raised_no_faq"
            /\ out_dir' = out_dir
       ELSE /\ xpc' = IF xpc = "combine" THEN "count" ELSE "combined"
            /\ out_dir' = WriteFile(out_dir, CombinedName, CombinedText(out_dir))
    /\ UNCHANGED <<raw_pages, runs, archive_dir, pnext, total_qas, num_questions>>

\* num_questions = count_questions_in_combined(combined_path)
MainFaqCount ==
    /\ xpc = "count"
    /\ num_questions' = count_questions_in_combined(out_dir[CombinedName])
    /\ xpc' = "archive"
    /\ UNCHANGED <<raw_pages, runs, out_dir, archive_dir, pnext, total_qas>>

\* archive_per_page_files(out_dir, Path("data/archive"))
MainFaqArchive ==
    /\ xpc = "archive"
    /\ out_dir' = ArchivedOut(out_dir)
    /\ archive_dir' = ArchivedArchive(out_dir, archive_dir)
    /\ xpc' = "done"
    /\ UNCHANGED <<raw_pages, runs, pnext, total_qas, num_questions>>

-----------------------------------------------------------------------------
(* Specifications: one per script *)

InitClean ==
    CleanInit /\ FetchIdle /\ MainIdle /\ FaqIdle /\ LinkIdle /\ CorpusIdle

NextClean ==
    \/ CleanFaq /\ UNCHANGED <<fetchVars, mainVars, faqVars, linkVars, corpusVars>>
    \/ CleanFaqAgain /\ UNCHANGED <<fetchVars, mainVars, faqVars, linkVars, corpusVars>>
    \/ CleanPage /\ UNCHANGED <<fetchVars, mainVars, faqVars, linkVars, corpusVars>>
    \/ CleanPageAgain /\ UNCHANGED <<fetchVars, mainVars, faqVars, linkVars, corpusVars>>

SpecClean == InitClean /\ [][NextClean]_vars

InitFetch ==
    FetchInit /\ CleanIdle /\ MainIdle /\ FaqIdle /\ LinkIdle /\ CorpusIdle

NextFetch ==
    \/ \E o \in Outcomes : \E b \in (IF o = "200" THEN Bodies ELSE {""}) :
           Request(o, b) /\ UNCHANGED <<cleanVars, mainVars, faqVars, linkVars, corpusVars>>
    \/ Backoff /\ UNCHANGED <<cleanVars, mainVars, faqVars, linkVars, corpusVars>>
    \/ ReturnFailure /\ UNCHANGED <<cleanVars, mainVars, faqVars, linkVars, corpusVars>>

SpecFetch == InitFetch /\ [][NextFetch]_vars

InitBatch ==
    MainInit /\ CleanIdle /\ FaqIdle /\ LinkIdle /\ CorpusIdle

NextBatch ==
    \/ MainReadSeeds /\ UNCHANGED <<cleanVars, faqVars, linkVars, corpusVars>>
    \/ MainCallFetch /\ UNCHANGED <<cleanVars, faqVars, linkVars, corpusVars>>
    \/ \E o \in Outcomes : \E b \in (IF o = "200" THEN Bodies ELSE {""}) :
           MainRequest(o, b) /\ UNCHANGED <<cleanVars, faqVars, linkVars, corpusVars>>
    \/ MainBackoff /\ UNCHANGED <<cleanVars, faqVars, linkVars, corpusVars>>
    \/ MainReturnFailure /\ UNCHANGED <<cleanVars, faqVars, linkVars, corpusVars>>
    \/ MainRecord /\ UNCHANGED <<cleanVars, faqVars, linkVars, corpusVars>>
    \/ MainRaised /\ UNCHANGED <<cleanVars, faqVars, linkVars, corpusVars>>
    \/ MainAppendMetadata /\ UNCHANGED <<cleanVars, faqVars, linkVars, corpusVars>>

SpecBatch == InitBatch /\ [][NextBatch]_vars

InitFaq ==
    FaqInit /\ CleanIdle /\ FetchIdle /\ MainIdle /\ LinkIdle /\ CorpusIdle

NextFaq ==
    ExtractFaq /\ UNCHANGED <<cleanVars, fetchVars, mainVars, linkVars, corpusVars>>

SpecFaq == InitFaq /\ [][NextFaq]_vars

InitLinks ==
    LinkInit /\ CleanIdle /\ FetchIdle /\ MainIdle /\ FaqIdle /\ CorpusIdle

NextLinks ==
    \/ LinkProcessFile /\ UNCHANGED <<cleanVars, fetchVars, mainVars, faqVars, corpusVars>>
    \/ LinkReturn /\ UNCHANGED <<cleanVars, fetchVars, mainVars, faqVars, corpusVars>>

SpecLinks == InitLinks /\ [][NextLinks]_vars

InitCorpus ==
    CorpusInit /\ CleanIdle /\ FetchIdle /\ MainIdle /\ FaqIdle /\ LinkIdle

NextCorpus ==
    \/ \E c \in BOOLEAN :
           MainFaqStart(c) /\ UNCHANGED <<cleanVars, fetchVars, mainVars, faqVars, linkVars>>
    \/ MainFaqExtractPage /\ UNCHANGED <<cleanVars, fetchVars, mainVars, faqVars, linkVars>>
    \/ MainFaqExtracted /\ UNCHANGED <<cleanVars, fetchVars, mainVars, faqVars, linkVars>>
    \/ CallCombine /\ UNCHANGED <<cleanVars, fetchVars, mainVars, faqVars, linkVars>>
    \/ Combine /\ UNCHANGED <<cleanVars, fetchVars, mainVars, faqVars, linkVars>>
    \/ MainFaqCount /\ UNCHANGED <<cleanVars, fetchVars, mainVars, faqVars, linkVars>>
    \/ MainFaqArchive /\ UNCHANGED <<cleanVars, fetchVars, mainVars, faqVars, linkVars>>

SpecCorpus == InitCorpus /\ [][NextCorpus]_vars

-----------------------------------------------------------------------------
(* fetch_html *)

Max0(n) == IF n > 0 THEN n ELSE 0

Failed == {k \in 1..Len(responses) : responses[k] # "200"}

\* C1: fetch_html makes at most retries + 1 requests and none after a 200;
\* the k-th sleep lasts backoff_sec * k, every failed attempt but the last
\* allowed one is followed by one sleep, and nothing else sleeps.  With
\* retries = 2 and two failures before a 200 the result is (html, "200",
\* None) after sleeps of backoff_sec and 2 * backoff_sec.
C1_RetryBackoff ==
    /\ Len(responses) <= Max0(retries + 1)
    /\ \A k \in 1..(Len(responses) - 1) : responses[k] # "200"
    /\ \A k \in 1..Len(sleeps) : sleeps[k] = backoff_sec * k
    /\ Len(sleeps) = IF fpc = "backoff" THEN Cardinality(Failed) - 1
                     ELSE IF Cardinality(Failed) <= retries THEN Cardinality(Failed)
                     ELSE Max0(retries)
    /\ (retries = 2 /\ Len(responses) = 3 /\ responses[3] = "200") =>
           /\ fpc = "returned"
           /\ ret[1] # None /\ ret[2] = "200" /\ ret[3] = None
           /\ sleeps = <<backoff_sec, 2 * backoff_sec>>

\* retries = 2, a 404, then an exception, then a 200
C1_Witness ==
    /\ retries = 2
    /\ backoff_sec = DefaultBackoff
    /\ responses = <<"404", "EXCEPTION", "200">>
    /\ fpc = "returned"
    /\ ret = <<"<html>", "200", None>>
    /\ sleeps = <<15, 30>>

\* C2: for every int retries, fetch_html never raises; it returns
\* (html, "200", None) when an attempt answered 200 and otherwise
\* (None, the last attempt's status or "EXCEPTION", a non-null error)
C2_NeverRaises ==
    /\ fpc # "raised"
    /\ fpc = "returned" =>
           IF \E k \in 1..Len(responses) : responses[k] = "200"
           THEN ret[1] # None /\ ret[2] = "200" /\ ret[3] = None
           ELSE /\ ret[1] = None
                /\ Len(responses) > 0
                /\ ret[2] = responses[Len(responses)]
                /\ ret[3] # None

-----------------------------------------------------------------------------
(* main of fetch_html.py *)

\* C3: over a non-empty seed list the run ends with one FetchResult per seed
\* URL appended to the metadata log, in seed order; a failed fetch gives
\* raw_path "", bytes 0 and an error, a successful one a raw_path and no error
C3_OneRecordPerSeed ==
    (mpc \in {"done", "aborted"} /\ urls # <<>>) =>
        /\ mpc = "done"
        /\ Len(metadata) = Len(meta_prior) + Len(urls)
        /\ SubSeq(metadata, 1, Len(meta_prior)) = meta_prior
        /\ \A k \in 1..Len(urls) :
              LET r == metadata[Len(meta_prior) + k]
              IN  /\ r.url = urls[k]
                  /\ IF r.status = "200"
                     THEN r.raw_path # "" /\ r.error = ""
                     ELSE r.raw_path = "" /\ r.bytes = 0 /\ r.error # ""

-----------------------------------------------------------------------------
(* extract_faq_from_html *)

\* the positions of the headings inside the accordion container
Headings(d) ==
    IF d.acc = <<>> THEN {}
    ELSE {i \in d.acc[1]..d.acc[2] : d.nodes[i].tag = "h6"}

\* the k-th smallest element of a set of positions
Kth(S, k) == CHOOSE i \in S : Cardinality({j \in S : j <= i}) = k

QuestionOf(d, i) == clean_faq(GetText(d.nodes[i], <<SP>>))

AnswerAt(d, j) == clean_faq(GetText(d.nodes[j], <<NL>>))

\* the headings that yield a pair: question and answer both non-empty
\* after clean
Kept(d) ==
    {i \in Headings(d) :
        /\ QuestionOf(d, i) # <<>>
        /\ FindNextRichText(d, i) # 0
        /\ AnswerAt(d, FindNextRichText(d, i)) # <<>>}

\* C6: every pair returned has a question and an answer that are non-empty,
\* also after clean; a heading whose text or whose answer normalises to the
\* empty string yields no pair, and the other headings yield theirs in order
C6_NoEmptySide ==
    epc = "returned" =>
        /\ \A k \in 1..Len(qa_pairs) :
              /\ qa_pairs[k][1] # <<>> /\ clean_faq(qa_pairs[k][1]) # <<>>
              /\ qa_pairs[k][2] # <<>> /\ clean_faq(qa_pairs[k][2]) # <<>>
        /\ Len(qa_pairs) = Cardinality(Kept(html))
        /\ \A k \in 1..Len(qa_pairs) :
              qa_pairs[k][1] = QuestionOf(html, Kth(Kept(html), k))

\* four headings, of which the second is blank, before one answer
C6_Witness ==
    /\ epc = "returned"
    /\ Len(html.nodes) = 4
    /\ html.acc = <<1, 4>>
    /\ html.nodes[1].tag = "h6" /\ html.nodes[1].frags = << <<"x">> >>
    /\ html.nodes[2].tag = "h6" /\ html.nodes[2].frags = << <<NL, SP>> >>
    /\ html.nodes[3].tag = "h6" /\ Len(html.nodes[3].frags) = 2
    /\ html.nodes[4].tag = "richText" /\ html.nodes[4].frags = << <<"x">> >>
    /\ Len(qa_pairs) = 2
    /\ qa_pairs[1][1] = <<"x">>
    /\ qa_pairs[2][1] = <<"y", NL, "x", SP, "x">>

\* the first richText div after position i, anywhere in the document
IsFirstRichAfter(d, i, j) ==
    /\ j \in (i + 1)..Len(d.nodes)
    /\ d.nodes[j].tag = "richText"
    /\ \A k \in (i + 1)..(j - 1) : d.nodes[k].tag # "richText"

\* C10: without a section#accordion the result is empty; otherwise the pairs
\* come from headings of the container in document order, each with the
\* first richText div after it anywhere in the document, duplicates kept;
\* headings with no richText div between them get the same block
C10_PairsFollowHeadings ==
    epc = "returned" =>
        /\ html.acc = <<>> => qa_pairs = <<>>
        /\ \E h \in [1..Len(qa_pairs) -> Headings(html)] :
              /\ \A k \in 1..(Len(qa_pairs) - 1) : h[k] < h[k + 1]
              /\ \A k \in 1..Len(qa_pairs) :
                    /\ qa_pairs[k][1] = QuestionOf(html, h[k])
                    /\ \E j \in 1..Len(html.nodes) :
                          /\ IsFirstRichAfter(html, h[k], j)
                          /\ qa_pairs[k][2] = AnswerAt(html, j)
              /\ \A i \in Headings(html) :
                    (\E k \in 1..Len(qa_pairs) : h[k] = i)
                        \/ QuestionOf(html, i) = <<>>
                        \/ \A j \in (i + 1)..Len(html.nodes) :
                              IsFirstRichAfter(html, i, j) => AnswerAt(html, j) = <<>>

\* two equal headings in the container, the only rich-text block after it
C10_Witness ==
    /\ epc = "returned"
    /\ Len(html.nodes) = 4
    /\ html.acc = <<1, 2>>
    /\ html.nodes[1] = Node("h6", << <<"x">> >>, <<>>)
    /\ html.nodes[2] = Node("h6", << <<"x">> >>, <<>>)
    /\ html.nodes[3].tag = "p"
    /\ html.nodes[4].tag = "richText"
    /\ qa_pairs = << << <<"x">>, <<"y", NL, "x", NL, "x">> >>,
                     << <<"x">>, <<"y", NL, "x", NL, "x">> >> >>

-----------------------------------------------------------------------------
(* extract_links_from_raw *)

\* the files the loop has been through
FilesDone == {LinkFiles[k] : k \in 1..lnext}

\* the headings with a matched answer block, as <<file, position>>
Matched ==
    {m \in FilesDone \X (1..MaxLinkNodes) :
        /\ m[2] \in Headings(raw_dir[m[1]])
        /\ \E j \in 1..Len(raw_dir[m[1]].nodes) : IsFirstRichAfter(raw_dir[m[1]], m[2], j)}

\* the answer block of a matched heading
BlockOf(m) ==
    LET d == raw_dir[m[1]]
    IN  d.nodes[CHOOSE j \in 1..Len(d.nodes) : IsFirstRichAfter(d, m[2], j)]

\* the positions an anchor can have in a block
AnchorPositions == UNION {1..Len(a) : a \in AnchorChoices}

\* the anchors of a block that have an href attribute, by position
HrefPositions(n) == {k \in 1..Len(n.anchors) : n.anchors[k] # NoHref}

MatchedWithLinks == {m \in Matched : HrefPositions(BlockOf(m)) # {}}

EntryOf(m) ==
    Entry(GetText(raw_dir[m[1]].nodes[m[2]], <<SP>>), GetText(BlockOf(m), <<NL>>))

-----------------------------------------------------------------------------
(* main of extract_faq.py and combine_faq_txt *)

\* C4: after extraction and combination the number of SEPARATOR occurrences
\* in the combined file is the sum of the pair counts of the pages
C4_SeparatorCountIsTotal ==
    xpc = "archive" => num_questions = total_qas

\* no file of the directory matches *_faq.txt
Bare(dir) == SortedFaqFiles(dir) = <<>>

\* the run of main under way follows a run with --combine and has --combine
RerunAfterArchive ==
    /\ Len(runs) >= 2
    /\ runs[Len(runs) - 1]
    /\ runs[Len(runs)]

\* C8, as stated: a combine on a directory without *_faq.txt files raises and
\* leaves the corpus file alone, and so does the combine step of a run of
\* main --combine that follows a run which archived the per-page files
C8_RerunFailsLoudly ==
    [][ /\ (xpc \in {"combine", "combine_direct"} /\ Bare(out_dir)) =>
               (xpc' = "raised_no_faq" /\ out_dir' = out_dir)
        /\ (xpc = "combine" /\ RerunAfterArchive) =>
               (xpc' = "raised_no_faq" /\ out_dir' = out_dir) ]_vars

\* C8, amended: combine_faq_txt on a directory without *_faq.txt files raises
\* and neither creates nor overwrites the corpus file; this happens to calls
\* of combine_faq_txt by itself only, main never combines such a directory
C8_CombineFailsOnBareDir ==
    [][ (xpc \in {"combine", "combine_direct"} /\ Bare(out_dir)) =>
            /\ xpc = "combine_direct"
            /\ xpc' = "raised_no_faq"
            /\ out_dir' = out_dir ]_vars

\* a run of main --combine archived two per-page files, and combine_faq_txt
\* called afterwards raised and left the corpus as the run wrote it
C8_Witness ==
    /\ xpc = "raised_no_faq"
    /\ runs = <<TRUE>>
    /\ DOMAIN archive_dir = {FaqTxt("a"), FaqTxt("b")}
    /\ DOMAIN out_dir = {CombinedName}
    /\ count_questions_in_combined(out_dir[CombinedName]) = 2

-----------------------------------------------------------------------------
\* C7: whitespace normalisation is idempotent, clean(clean(x)) = clean(x),
\* for the clean of extract_faq.py and for the clean of extract_page_content.py
C7_CleanIdempotent ==
    /\ "faq2" \in cdone => faq_twice = faq_once
    /\ "page2" \in cdone => page_twice = page_once

\* both functions applied twice to a text whose trailing blanks, newline run
\* and outer whitespace all get rewritten
C7_Witness ==
    /\ {"faq2", "page2"} \subseteq cdone
    /\ text = <<SP, "x", SP, NL, NL>>
    /\ page_once = <<"x">>
    /\ faq_once = <<"x">>

\* C9: the FAQ extractor's clean returns what the page-content extractor's
\* clean returns, for every string
C9_SameNormalization ==
    {"faq", "page"} \subseteq cdone => faq_once = page_once

=============================================================================
